---- MODULE Spec2Model ----
(***************************************************************************)
(* Model of homework.py: the poll loop of main() with check_tokens,        *)
(* get_api_answer, check_response, parse_status and send_message.          *)
(*                                                                         *)
(* Texts are modelled as tuples of string pieces, in the order the         *)
(* f-strings of the source concatenate them; the Russian literals of the   *)
(* source are transliterated to ASCII.                                     *)
(***************************************************************************)
EXTENDS Integers, Sequences, FiniteSets, TLC

(***************************************************************************)
(* Bounds of the model.                                                    *)
(***************************************************************************)
\* longest `homeworks` list the API returns
MaxHomeworks == 2

(***************************************************************************)
(* Program constants.                                                      *)
(***************************************************************************)
RETRY_PERIOD == 600

ENDPOINT == "https://practicum.yandex.ru/api/user_api/homework_statuses/"

\* the verdict texts, transliterated to ASCII
HOMEWORK_VERDICTS ==
    [approved  |-> "Rabota proverena: revyueru vsyo ponravilos. Ura!",
     reviewing |-> "Rabota vzyata na proverku revyuerom.",
     rejected  |-> "Rabota proverena: u revyuera est zamechaniya."]

\* HTTPStatus.OK
HTTP_OK == 200

\* Python's None where a text is expected (no text is this tuple)
None == <<"<None>">>

\* marks "no exception raised"
NoError == [type |-> "", text |-> <<>>]

(***************************************************************************)
(* Inputs: environment, API outcomes, delivery outcomes.                   *)
(***************************************************************************)
\* os.getenv gives None for an absent variable, else its string
Absent == "<absent>"
TokenValues == {Absent, "", "secret"}

\* truthiness of an environment value, as all() tests it
Truthy(v) == v # Absent /\ v # ""

HomeworkNames == {"task1", "task2"}
HomeworkStatuses == {"approved", "reviewing", "rejected", "unknown"}

\* a homework record: a mapping with any subset of the two keys
HomeworkOf(hasName, name, hasStatus, status) ==
    [k \in ((IF hasName THEN {"homework_name"} ELSE {})
            \cup (IF hasStatus THEN {"status"} ELSE {}))
        |-> IF k = "homework_name" THEN name ELSE status]

\* every record over the two keys
HomeworkRecords ==
    {HomeworkOf(TRUE, n, TRUE, s) : n \in HomeworkNames, s \in HomeworkStatuses}
    \cup {HomeworkOf(TRUE, n, FALSE, "") : n \in HomeworkNames}
    \cup {HomeworkOf(FALSE, "", TRUE, s) : s \in HomeworkStatuses}
    \cup {HomeworkOf(FALSE, "", FALSE, "")}

\* the records the polled API is taken to send: each verdict, two names,
\* an undocumented status, a record without status, a record without name
PolledRecords ==
    {HomeworkOf(TRUE, "task1", TRUE, "approved"),
     HomeworkOf(TRUE, "task2", TRUE, "approved"),
     HomeworkOf(TRUE, "task1", TRUE, "rejected"),
     HomeworkOf(TRUE, "task2", TRUE, "reviewing"),
     HomeworkOf(TRUE, "task1", TRUE, "unknown"),
     HomeworkOf(TRUE, "task1", FALSE, ""),
     HomeworkOf(FALSE, "", TRUE, "approved")}

HomeworkLists ==
    UNION {[1..n -> PolledRecords] : n \in 0..MaxHomeworks}

\* the decoded body: its top-level type, whether the key `homeworks' is
\* there, the type of the value under it, and the value when it is a list
JsonBody(top, hasKey, valType, hws) ==
    [json |-> TRUE, top |-> top, has_homeworks |-> hasKey,
     homeworks_type |-> valType, homeworks |-> hws]

\* a body that json() cannot decode
InvalidBody ==
    [json |-> FALSE, top |-> "", has_homeworks |-> FALSE,
     homeworks_type |-> "", homeworks |-> <<>>]

EmptyDictBody == JsonBody("dict", FALSE, "", <<>>)

ResponseBodies ==
    {InvalidBody, JsonBody("list", FALSE, "", <<>>), EmptyDictBody,
     JsonBody("dict", TRUE, "str", <<>>)}
    \cup {JsonBody("dict", TRUE, "list", h) : h \in HomeworkLists}

TransportErrors == {"ConnectionError", "Timeout"}
ErrorStatusCodes == {404, 500}

\* what one requests.get can meet
ApiOutcomes ==
    {[transport |-> t, status_code |-> 0, body |-> InvalidBody] :
        t \in TransportErrors}
    \cup {[transport |-> "ok", status_code |-> c, body |-> b] :
        c \in ErrorStatusCodes, b \in {InvalidBody, EmptyDictBody}}
    \cup {[transport |-> "ok", status_code |-> HTTP_OK, body |-> b] :
        b \in ResponseBodies}

DeliveryOutcomes == {"delivered", "TelegramError"}

(***************************************************************************)
(* Results of a call: a returned value or a raised exception.              *)
(***************************************************************************)
Return(v) == [raised |-> FALSE, error |-> NoError, value |-> v]
Raise(type, text, v) ==
    [raised |-> TRUE, error |-> [type |-> type, text |-> text], value |-> v]

\* the classes of exceptions.py: which raised types an except clause catches
Catches(clause, type) ==
    \/ clause = "Exception"
    \/ clause = type

\* a variant: any() where the source has all()
check_tokens_Any(env) ==
    IF ~(Truthy(env.PRACTICUM_TOKEN) \/ Truthy(env.TELEGRAM_TOKEN)
         \/ Truthy(env.TELEGRAM_CHAT_ID))
    THEN Raise("TokensAccessError", <<"Peremennye okruzheniya nedostupny.">>,
               None)
    ELSE Return(None)

(***************************************************************************)
(* check_tokens                                                            *)
(***************************************************************************)
check_tokens(env) ==
    IF ~(Truthy(env.PRACTICUM_TOKEN) /\ Truthy(env.TELEGRAM_TOKEN)
         /\ Truthy(env.TELEGRAM_CHAT_ID))
    THEN Raise("TokensAccessError", <<"Peremennye okruzheniya nedostupny.">>,
               None)
    ELSE Return(None)

\* a variant: the body is decoded before the status is tested
get_api_answer_DecodeFirst(a) ==
    IF a.transport # "ok"
    THEN Raise("RequestError",
               <<"Sboi v rabote programmy: Endpoint ", ENDPOINT,
                 " nedostupen. Kod otveta API: ", a.transport, ".">>,
               InvalidBody)
    ELSE IF ~a.body.json
    THEN Raise("JsonDecodeError",
               <<"Oshibka dekodirovaniya JSON: ", "Expecting value">>,
               InvalidBody)
    ELSE IF a.status_code # HTTP_OK
    THEN Raise("HttpStatusNotOK",
               <<"Status otveta API ne 200, a ", ToString(a.status_code)>>,
               InvalidBody)
    ELSE Return(a.body)

(***************************************************************************)
(* get_api_answer                                                          *)
(***************************************************************************)
get_api_answer(a) ==
    IF a.transport # "ok"
    THEN Raise("RequestError",
               <<"Sboi v rabote programmy: Endpoint ", ENDPOINT,
                 " nedostupen. Kod otveta API: ", a.transport, ".">>,
               InvalidBody)
    ELSE IF a.status_code # HTTP_OK
    THEN Raise("HttpStatusNotOK",
               <<"Status otveta API ne 200, a ", ToString(a.status_code)>>,
               InvalidBody)
    ELSE IF ~a.body.json
    THEN Raise("JsonDecodeError",
               <<"Oshibka dekodirovaniya JSON: ", "Expecting value">>,
               InvalidBody)
    ELSE Return(a.body)

(***************************************************************************)
(* check_response                                                          *)
(***************************************************************************)
\* response.get('homeworks'): the value's type and the value; None, never
\* a KeyError, when the key is absent
DictGetHomeworks(r) ==
    IF r.has_homeworks
    THEN [type |-> r.homeworks_type, value |-> r.homeworks]
    ELSE [type |-> "NoneType", value |-> <<>>]

\* a variant: the value under the key is returned without the list test
check_response_NoListTest(r) ==
    IF r.top = "dict"
    THEN Return(DictGetHomeworks(r).value)
    ELSE Raise("TypeError",
               <<"V otvete API domashki 'response' po tipu ne yavlyaetsya slovarem.">>,
               <<>>)

\* a variant: `if not homeworks' where the source tests the type, so that
\* an empty list is refused
check_response_EmptyIsError(r) ==
    IF r.top = "dict"
    THEN LET got == DictGetHomeworks(r)
         IN  IF got.type # "list" \/ got.value = <<>>
             THEN Raise("TypeError",
                        <<"V otvete API domashki pod klyuchom 'homeworks' dannye prikhodyat ne v vide spiska.">>,
                        <<>>)
             ELSE Return(got.value)
    ELSE Raise("TypeError",
               <<"V otvete API domashki 'response' po tipu ne yavlyaetsya slovarem.">>,
               <<>>)

check_response(r) ==
    IF r.top = "dict"
    THEN LET got == DictGetHomeworks(r)
             body == IF got.type # "list"
                     THEN Raise("TypeError",
                                <<"V otvete API domashki pod klyuchom 'homeworks' dannye prikhodyat ne v vide spiska.">>,
                                <<>>)
                     ELSE Return(got.value)
         IN  IF body.raised /\ Catches("KeyError", body.error.type)
             THEN Raise("EmptyAPIResponse",
                        <<"V otvete API domashki net klyucha 'homeworks'.">>,
                        <<>>)
             ELSE body
    ELSE Raise("TypeError",
               <<"V otvete API domashki 'response' po tipu ne yavlyaetsya slovarem.">>,
               <<>>)

\* a variant: the status is looked up before the name
parse_status_StatusFirst(h) ==
    IF "status" \notin DOMAIN h
       \/ h["status"] \notin DOMAIN HOMEWORK_VERDICTS
    THEN Raise("HomeworkStatusError",
               <<"V otvete API domashki vozvrashchaet nedokumentirovannyi status domashnei raboty libo domashku bez statusa.">>,
               None)
    ELSE IF "homework_name" \notin DOMAIN h
    THEN Raise("NoHomeworkNameKey",
               <<"V otvete API domashki net klyucha 'homework_name'.">>, None)
    ELSE Return(<<"Izmenilsya status proverki raboty \"", h["homework_name"],
                  "\". ", HOMEWORK_VERDICTS[h["status"]]>>)

(***************************************************************************)
(* parse_status                                                            *)
(***************************************************************************)
parse_status(h) ==
    IF "homework_name" \notin DOMAIN h
    THEN Raise("NoHomeworkNameKey",
               <<"V otvete API domashki net klyucha 'homework_name'.">>, None)
    ELSE IF "status" \notin DOMAIN h
            \/ h["status"] \notin DOMAIN HOMEWORK_VERDICTS
    THEN Raise("HomeworkStatusError",
               <<"V otvete API domashki vozvrashchaet nedokumentirovannyi status domashnei raboty libo domashku bez statusa.">>,
               None)
    ELSE Return(<<"Izmenilsya status proverki raboty \"", h["homework_name"],
                  "\". ", HOMEWORK_VERDICTS[h["status"]]>>)

(***************************************************************************)
(* send_message: one delivery attempt; a TelegramError is logged, not      *)
(* raised again.                                                           *)
(***************************************************************************)
\* a variant: the TelegramError is logged and raised again
send_message_Raises(d) ==
    IF d = "TelegramError"
    THEN Raise("TelegramError", <<"Timed out">>, "error logged")
    ELSE Return("sent")

send_message(d) ==
    IF d = "TelegramError"
    THEN Return("error logged")
    ELSE Return("sent")

\* the failure notice of main's handler
FailureNotice(e) == <<"Sboi v rabote programmy: ">> \o e.text \o <<".">>

(***************************************************************************)
(* State.                                                                  *)
(*                                                                         *)
(* Program state: env, pc, timestamp, previous_status, response,           *)
(* homeworks, pos (the position of the for loop), new_status, error (the   *)
(* exception in flight), message, unhandled (an exception is leaving       *)
(* main).  The locals of one pass of the loop are written before they are  *)
(* read in every pass, so Sleep clears them.                               *)
(*                                                                         *)
(* Observations of the run: api (the outcome the request met), repeated    *)
(* (it equals the outcome of the pass before), from_date (the parameter of *)
(* the latest request), startStatus and sentBefore (previous_status and    *)
(* the latest sent text when the pass began), computedLog and sendLog (the *)
(* texts computed and the texts handed to send_message in this pass),      *)
(* lastSent, delivery (the outcome of the latest send of this pass),       *)
(* prevNotice (the failure notice of the pass before), requested, slept,   *)
(* requests (the requests made since the latest sleep), sleeps (the sleeps *)
(* made since the latest request), sleep_seconds (the argument of the      *)
(* latest sleep).                                                          *)
(***************************************************************************)
VARIABLES env, pc, timestamp, previous_status, response, homeworks, pos,
          new_status, error, message, unhandled,
          api, repeated, from_date, startStatus, sentBefore, computedLog,
          sendLog, lastSent, delivery, prevNotice, requested, slept,
          requests, sleeps, sleep_seconds

locals == <<response, homeworks, pos, new_status, message>>
observed == <<api, repeated, from_date, startStatus, sentBefore, computedLog,
              sendLog, lastSent, delivery, prevNotice, requested, slept,
              requests, sleeps, sleep_seconds>>
vars == <<env, pc, timestamp, previous_status, error, unhandled,
          locals, observed>>

\* the positions inside the loop of main
LoopPcs == {"fetch", "check", "loop", "compare", "send", "assign", "except",
            "send_notice", "assign_notice", "sleep"}

Init ==
    /\ env \in [PRACTICUM_TOKEN : TokenValues, TELEGRAM_TOKEN : TokenValues,
                TELEGRAM_CHAT_ID : TokenValues]
    /\ pc = "start"
    /\ timestamp = -1
    /\ previous_status = None
    /\ response = InvalidBody
    /\ homeworks = <<>>
    /\ pos = 0
    /\ new_status = None
    /\ error = NoError
    /\ message = None
    /\ unhandled = FALSE
    /\ api = [transport |-> "ok", status_code |-> 0, body |-> InvalidBody]
    /\ repeated = FALSE
    /\ from_date = -1
    /\ startStatus = None
    /\ sentBefore = None
    /\ computedLog = <<>>
    /\ sendLog = <<>>
    /\ lastSent = None
    /\ delivery = "none"
    /\ prevNotice = None
    /\ requested = FALSE
    /\ slept = FALSE
    /\ requests = 0
    /\ sleeps = 0
    /\ sleep_seconds = 0

\* main, lines 111-114: check_tokens, then the initial assignments
CheckTokens ==
    /\ pc = "start"
    /\ LET r == check_tokens(env)
       IN  IF r.raised
           THEN /\ pc' = "aborted"
                /\ error' = r.error
                /\ unhandled' = TRUE
                /\ UNCHANGED <<timestamp, previous_status>>
           ELSE /\ pc' = "fetch"
                /\ previous_status' = None
                /\ timestamp' = 0
                /\ UNCHANGED <<error, unhandled>>
    /\ UNCHANGED <<env, locals, observed>>

\* a variant of line 118: after a transport failure the request is made again
GetApiAnswer_Retry ==
    /\ pc = "fetch"
    /\ \E a \in ApiOutcomes :
        LET r == get_api_answer(a)
        IN  /\ api' = a
            /\ repeated' = (slept /\ a = api)
            /\ from_date' = timestamp
            /\ requested' = TRUE
            /\ requests' = requests + 1
            /\ sleeps' = 0
            /\ IF r.raised
               THEN /\ error' = IF r.error.type = "RequestError"
                                THEN error ELSE r.error
                    /\ pc' = IF r.error.type = "RequestError"
                             THEN "fetch" ELSE "except"
                    /\ UNCHANGED response
               ELSE /\ response' = r.value
                    /\ pc' = "check"
                    /\ UNCHANGED error
    /\ UNCHANGED <<env, timestamp, previous_status, homeworks, pos,
                   new_status, message, unhandled, startStatus, sentBefore,
                   computedLog, sendLog, lastSent, delivery, prevNotice,
                   slept, sleep_seconds>>

\* main, line 118: one request
GetApiAnswer ==
    /\ pc = "fetch"
    /\ \E a \in ApiOutcomes :
        LET r == get_api_answer(a)
        IN  /\ api' = a
            /\ repeated' = (slept /\ a = api)
            /\ from_date' = timestamp
            /\ requested' = TRUE
            /\ requests' = requests + 1
            /\ sleeps' = 0
            /\ IF r.raised
               THEN /\ error' = r.error
                    /\ pc' = "except"
                    /\ UNCHANGED response
               ELSE /\ response' = r.value
                    /\ pc' = "check"
                    /\ UNCHANGED error
    /\ UNCHANGED <<env, timestamp, previous_status, homeworks, pos,
                   new_status, message, unhandled, startStatus, sentBefore,
                   computedLog, sendLog, lastSent, delivery, prevNotice,
                   slept, sleep_seconds>>

\* main, line 119
CheckResponse ==
    /\ pc = "check"
    /\ LET r == check_response(response)
       IN  IF r.raised
           THEN /\ error' = r.error
                /\ pc' = "except"
                /\ UNCHANGED <<homeworks, pos>>
           ELSE /\ homeworks' = r.value
                /\ pos' = 0
                /\ pc' = "loop"
                /\ UNCHANGED error
    /\ UNCHANGED <<env, timestamp, previous_status, response, new_status,
                   message, unhandled, observed>>

\* a variant of lines 120-121: a record that cannot be formatted is skipped
ParseStatus_SkipsFailedRecord ==
    /\ pc = "loop"
    /\ pos < Len(homeworks)
    /\ pos' = pos + 1
    /\ LET r == parse_status(homeworks[pos + 1])
       IN  IF r.raised
           THEN /\ pc' = "loop"
                /\ UNCHANGED <<error, new_status, computedLog>>
           ELSE /\ new_status' = r.value
                /\ computedLog' = Append(computedLog, r.value)
                /\ pc' = "compare"
                /\ UNCHANGED error
    /\ UNCHANGED <<env, timestamp, previous_status, response, homeworks,
                   message, unhandled, api, repeated, from_date, startStatus,
                   sentBefore, sendLog, lastSent, delivery, prevNotice,
                   requested, slept, requests,
                   sleeps, sleep_seconds>>

\* main, lines 120-121: the next record, formatted
ParseStatus ==
    /\ pc = "loop"
    /\ pos < Len(homeworks)
    /\ pos' = pos + 1
    /\ LET r == parse_status(homeworks[pos + 1])
       IN  IF r.raised
           THEN /\ error' = r.error
                /\ pc' = "except"
                /\ UNCHANGED <<new_status, computedLog>>
           ELSE /\ new_status' = r.value
                /\ computedLog' = Append(computedLog, r.value)
                /\ pc' = "compare"
                /\ UNCHANGED error
    /\ UNCHANGED <<env, timestamp, previous_status, response, homeworks,
                   message, unhandled, api, repeated, from_date, startStatus,
                   sentBefore, sendLog, lastSent, delivery, prevNotice,
                   requested, slept, requests,
                   sleeps, sleep_seconds>>

\* main, line 120: the list is exhausted
LoopExhausted ==
    /\ pc = "loop"
    /\ pos >= Len(homeworks)
    /\ pc' = "sleep"
    /\ UNCHANGED <<env, timestamp, previous_status, error, unhandled,
                   locals, observed>>

\* a variant of line 122: no comparison, every text is sent
Compare_NoDedup ==
    /\ pc = "compare"
    /\ pc' = "send"
    /\ UNCHANGED <<env, timestamp, previous_status, error, unhandled,
                   locals, observed>>

\* main, line 122
Compare ==
    /\ pc = "compare"
    /\ pc' = IF previous_status # new_status THEN "send" ELSE "loop"
    /\ UNCHANGED <<env, timestamp, previous_status, error, unhandled,
                   locals, observed>>

\* a variant of lines 123-124: an undelivered text is not remembered
SendStatus_SkipsAssign ==
    /\ pc = "send"
    /\ \E d \in DeliveryOutcomes :
        /\ sendLog' = Append(sendLog, new_status)
        /\ lastSent' = new_status
        /\ delivery' = d
        /\ pc' = IF d = "TelegramError" THEN "loop" ELSE "assign"
    /\ UNCHANGED <<env, timestamp, previous_status, error, unhandled, locals,
                   api, repeated, from_date, startStatus, sentBefore,
                   computedLog, prevNotice, requested, slept, requests,
                   sleeps, sleep_seconds>>

\* main, line 123
SendStatus ==
    /\ pc = "send"
    /\ \E d \in DeliveryOutcomes :
        LET r == send_message(d)
        IN  /\ sendLog' = Append(sendLog, new_status)
            /\ lastSent' = new_status
            /\ delivery' = d
            /\ IF r.raised
               THEN /\ error' = r.error
                    /\ pc' = "except"
               ELSE /\ pc' = "assign"
                    /\ UNCHANGED error
    /\ UNCHANGED <<env, timestamp, previous_status, unhandled, locals, api,
                   repeated, from_date, startStatus, sentBefore, computedLog,
                   prevNotice, requested, slept, requests,
                   sleeps, sleep_seconds>>

\* a variant of line 124: the sent text is not remembered
AssignStatus_Forget ==
    /\ pc = "assign"
    /\ pc' = "loop"
    /\ UNCHANGED <<env, timestamp, previous_status, error, unhandled,
                   locals, observed>>

\* main, line 124
AssignStatus ==
    /\ pc = "assign"
    /\ previous_status' = new_status
    /\ pc' = "loop"
    /\ UNCHANGED <<env, timestamp, error, unhandled, locals, observed>>

\* a variant of lines 125-130: the first clause also takes TypeError
HandleException_LogsTypeError ==
    /\ pc = "except"
    /\ IF error.type \in {"EmptyAPIResponse", "TypeError"}
       THEN /\ pc' = "sleep"
            /\ UNCHANGED <<message, computedLog>>
       ELSE LET text == FailureNotice(error)
            IN  /\ message' = text
                /\ computedLog' = Append(computedLog, text)
                /\ pc' = IF previous_status # text
                         THEN "send_notice" ELSE "sleep"
    /\ error' = NoError
    /\ UNCHANGED <<env, timestamp, previous_status, response, homeworks, pos,
                   new_status, unhandled, api, repeated, from_date,
                   startStatus, sentBefore, sendLog, lastSent, delivery,
                   prevNotice, requested, slept, requests,
                   sleeps, sleep_seconds>>

\* a variant of lines 125-130: the notice is sent without the comparison
HandleException_AlwaysSend ==
    /\ pc = "except"
    /\ IF Catches("EmptyAPIResponse", error.type)
       THEN /\ pc' = "sleep"
            /\ UNCHANGED <<message, computedLog>>
       ELSE LET text == FailureNotice(error)
            IN  /\ message' = text
                /\ computedLog' = Append(computedLog, text)
                /\ pc' = "send_notice"
    /\ error' = NoError
    /\ UNCHANGED <<env, timestamp, previous_status, response, homeworks, pos,
                   new_status, unhandled, api, repeated, from_date,
                   startStatus, sentBefore, sendLog, lastSent, delivery,
                   prevNotice, requested, slept, requests,
                   sleeps, sleep_seconds>>

\* main, lines 125-130: the two except clauses, in their order
HandleException ==
    /\ pc = "except"
    /\ IF Catches("EmptyAPIResponse", error.type)
       THEN /\ pc' = "sleep"
            /\ UNCHANGED <<message, computedLog>>
       ELSE LET text == FailureNotice(error)
            IN  /\ message' = text
                /\ computedLog' = Append(computedLog, text)
                /\ pc' = IF previous_status # text
                         THEN "send_notice" ELSE "sleep"
    /\ error' = NoError
    /\ UNCHANGED <<env, timestamp, previous_status, response, homeworks, pos,
                   new_status, unhandled, api, repeated, from_date,
                   startStatus, sentBefore, sendLog, lastSent, delivery,
                   prevNotice, requested, slept, requests,
                   sleeps, sleep_seconds>>

\* a variant of lines 131-132: an undelivered notice is not remembered
SendNotice_SkipsAssign ==
    /\ pc = "send_notice"
    /\ \E d \in DeliveryOutcomes :
        LET r == send_message(d)
        IN  /\ sendLog' = Append(sendLog, message)
            /\ lastSent' = message
            /\ delivery' = d
            /\ IF r.raised
               THEN /\ error' = r.error
                    /\ unhandled' = TRUE
                    /\ pc' = "sleep"
               ELSE /\ pc' = IF d = "TelegramError"
                             THEN "sleep" ELSE "assign_notice"
                    /\ UNCHANGED <<error, unhandled>>
    /\ UNCHANGED <<env, timestamp, previous_status, locals, api, repeated,
                   from_date, startStatus, sentBefore, computedLog,
                   prevNotice, requested, slept, requests,
                   sleeps, sleep_seconds>>

\* main, line 131
SendNotice ==
    /\ pc = "send_notice"
    /\ \E d \in DeliveryOutcomes :
        LET r == send_message(d)
        IN  /\ sendLog' = Append(sendLog, message)
            /\ lastSent' = message
            /\ delivery' = d
            /\ IF r.raised
               THEN /\ error' = r.error
                    /\ unhandled' = TRUE
                    /\ pc' = "sleep"
               ELSE /\ pc' = "assign_notice"
                    /\ UNCHANGED <<error, unhandled>>
    /\ UNCHANGED <<env, timestamp, previous_status, locals, api, repeated,
                   from_date, startStatus, sentBefore, computedLog,
                   prevNotice, requested, slept, requests,
                   sleeps, sleep_seconds>>

\* a variant of line 132: the sent notice is not remembered
AssignNotice_Forget ==
    /\ pc = "assign_notice"
    /\ pc' = "sleep"
    /\ UNCHANGED <<env, timestamp, previous_status, error, unhandled,
                   locals, observed>>

\* main, line 132
AssignNotice ==
    /\ pc = "assign_notice"
    /\ previous_status' = message
    /\ pc' = "sleep"
    /\ UNCHANGED <<env, timestamp, error, unhandled, locals, observed>>

\* a variant of line 134: the timestamp moves on with each sleep
Sleep_AdvancesTimestamp ==
    /\ pc = "sleep"
    /\ slept' = TRUE
    /\ sleep_seconds' = RETRY_PERIOD
    /\ sleeps' = sleeps + 1
    /\ requests' = 0
    /\ IF unhandled
       THEN /\ pc' = "crashed"
            /\ UNCHANGED <<locals, repeated, startStatus, sentBefore,
                           computedLog, sendLog, delivery, prevNotice>>
       ELSE /\ pc' = "fetch"
            /\ response' = InvalidBody
            /\ homeworks' = <<>>
            /\ pos' = 0
            /\ new_status' = None
            /\ message' = None
            /\ repeated' = FALSE
            /\ startStatus' = previous_status
            /\ sentBefore' = lastSent
            /\ computedLog' = <<>>
            /\ sendLog' = <<>>
            /\ delivery' = "none"
            /\ prevNotice' = message
    /\ timestamp' = timestamp + RETRY_PERIOD
    /\ UNCHANGED <<env, previous_status, error, unhandled, api,
                   from_date, lastSent, requested>>

\* main, line 134 and the jump back to line 116
Sleep ==
    /\ pc = "sleep"
    /\ slept' = TRUE
    /\ sleep_seconds' = RETRY_PERIOD
    /\ sleeps' = sleeps + 1
    /\ requests' = 0
    /\ IF unhandled
       THEN /\ pc' = "crashed"
            /\ UNCHANGED <<locals, repeated, startStatus, sentBefore,
                           computedLog, sendLog, delivery, prevNotice>>
       ELSE /\ pc' = "fetch"
            /\ response' = InvalidBody
            /\ homeworks' = <<>>
            /\ pos' = 0
            /\ new_status' = None
            /\ message' = None
            /\ repeated' = FALSE
            /\ startStatus' = previous_status
            /\ sentBefore' = lastSent
            /\ computedLog' = <<>>
            /\ sendLog' = <<>>
            /\ delivery' = "none"
            /\ prevNotice' = message
    /\ UNCHANGED <<env, timestamp, previous_status, error, unhandled, api,
                   from_date, lastSent, requested>>

Next ==
    \/ CheckTokens
    \/ GetApiAnswer
    \/ CheckResponse
    \/ ParseStatus
    \/ LoopExhausted
    \/ Compare
    \/ SendStatus
    \/ AssignStatus
    \/ HandleException
    \/ SendNotice
    \/ AssignNotice
    \/ Sleep

Spec == Init /\ [][Next]_vars

\* the loop is sequential code: a step that can be taken is taken
FairSpec == Spec /\ WF_vars(Next)

TypeOK ==
    /\ pc \in LoopPcs \cup {"start", "aborted", "crashed"}
    /\ timestamp \in {-1, 0}
    /\ pos \in 0..MaxHomeworks
    /\ Len(sendLog) <= MaxHomeworks + 1

(***************************************************************************)
(* Helpers of the properties.                                              *)
(***************************************************************************)
Range(f) == {f[k] : k \in DOMAIN f}

Last(q) == q[Len(q)]

InLoop == pc \in LoopPcs

\* the pass has ended and is about to sleep
PassEnded == pc = "sleep"

\* the exception the first failing record of a list raises, if any
RECURSIVE FirstParseError(_)
FirstParseError(hws) ==
    IF hws = <<>> THEN NoError
    ELSE IF parse_status(Head(hws)).raised THEN parse_status(Head(hws)).error
    ELSE FirstParseError(Tail(hws))

\* the exception that get_api_answer, check_response or parse_status raises
\* in a pass whose request meets outcome a; NoError when none does
IterationError(a) ==
    LET g == get_api_answer(a)
    IN  IF g.raised THEN g.error
        ELSE LET c == check_response(g.value)
             IN  IF c.raised THEN c.error ELSE FirstParseError(c.value)

\* q without each text that equals the text before it, prev being the text
\* before the first
RECURSIVE Compress(_, _)
Compress(prev, q) ==
    IF q = <<>> THEN <<>>
    ELSE IF Head(q) = prev THEN Compress(prev, Tail(q))
    ELSE <<Head(q)>> \o Compress(Head(q), Tail(q))

\* the texts handed to send_message, from the latest one before this pass on
SendsInARow ==
    (IF sentBefore = None THEN <<>> ELSE <<sentBefore>>) \o sendLog

(***************************************************************************)
(* C1: no two consecutive send_message calls, inside one pass or across    *)
(* passes, delivered or not, carry the same text.                          *)
(***************************************************************************)
C1_NoSameTextInARow ==
    \A k \in 1..(Len(SendsInARow) - 1) : SendsInARow[k] # SendsInARow[k + 1]

\* a pass that sent twice after an earlier pass had sent
C1_Witness ==
    /\ PassEnded
    /\ sentBefore # None
    /\ Len(sendLog) >= 2
    /\ delivery = "TelegramError"

(***************************************************************************)
(* C2 as stated: when a pass receives the same API response as the pass    *)
(* before it, it makes no send_message call, whatever the response.        *)
(***************************************************************************)
C2_Original ==
    (PassEnded /\ repeated) => sendLog = <<>>

(***************************************************************************)
(* C2 amended: when a pass receives the same API response as the pass      *)
(* before it and all texts computed from it are one text, it makes no      *)
(* send_message call; when the texts computed from it differ, it sends     *)
(* again.                                                                  *)
(***************************************************************************)
C2_DedupOneText ==
    (PassEnded /\ repeated) =>
        IF Cardinality(Range(computedLog)) <= 1
        THEN sendLog = <<>>
        ELSE sendLog # <<>>

\* a repeated response with a record: its text is computed and not sent
C2_Witness ==
    /\ PassEnded
    /\ repeated
    /\ Len(computedLog) = 2
    /\ Cardinality(Range(computedLog)) = 1
    /\ sendLog = <<>>

\* the request met status 200 and a JSON mapping without the key
NoHomeworksKey ==
    /\ api.transport = "ok"
    /\ api.status_code = HTTP_OK
    /\ api.body.json
    /\ api.body.top = "dict"
    /\ ~api.body.has_homeworks

(***************************************************************************)
(* C3 as stated: a mapping without the key `homeworks' is only logged: the *)
(* pass sends nothing, leaves previous_status alone, and sleeps.           *)
(***************************************************************************)
C3_MissingKeyOnlyLogged ==
    (PassEnded /\ NoHomeworksKey) =>
        /\ sendLog = <<>>
        /\ previous_status = startStatus
        /\ message = None
        /\ ~unhandled

\* previous_status when the handler of the pass began: the latest status
\* text of the pass, or the text the pass began with
StatusBeforeNotice ==
    IF Len(computedLog) > 1
    THEN computedLog[Len(computedLog) - 1]
    ELSE startStatus

(***************************************************************************)
(* C4: a failure of get_api_answer, check_response or parse_status is      *)
(* caught in its pass and becomes the generic failure notice; the notice   *)
(* is sent and stored exactly when it differs from previous_status; the    *)
(* pass goes on to sleep.                                                  *)
(***************************************************************************)
C4_FailureBecomesNotice ==
    /\ (pc = "except") => error = IterationError(api)
    /\ (PassEnded /\ IterationError(api) # NoError) =>
        /\ message = FailureNotice(IterationError(api))
        /\ computedLog # <<>> /\ Last(computedLog) = message
        /\ previous_status = message
        /\ (sendLog # <<>> /\ Last(sendLog) = message)
              <=> (StatusBeforeNotice # message)
        /\ error = NoError
        /\ ~unhandled
    /\ (PassEnded /\ IterationError(api) = NoError) => message = None

\* a record with an undocumented status after a valid one: notice sent
C4_Witness ==
    /\ PassEnded
    /\ IterationError(api).type = "HomeworkStatusError"
    /\ Len(sendLog) = 2
    /\ Last(sendLog) = message
    /\ previous_status = message

(***************************************************************************)
(* C5 as stated: when two passes in a row produce the same failure notice, *)
(* the second pass does not send it, whatever precedes the failure.        *)
(***************************************************************************)
C5_Original ==
    (PassEnded /\ message # None /\ message = prevNotice) =>
        message \notin Range(sendLog)

(***************************************************************************)
(* C5 amended: when two passes in a row produce the same failure notice    *)
(* and the second computes no status text before failing, the second pass  *)
(* sends nothing; when status texts come before the failure, the notice is *)
(* sent again after them.                                                  *)
(***************************************************************************)
C5_NoticeOncePerRun ==
    (PassEnded /\ message # None /\ message = prevNotice) =>
        IF Len(computedLog) = 1
        THEN sendLog = <<>>
        ELSE Last(sendLog) = message

\* the same transport failure twice
C5_Witness ==
    /\ PassEnded
    /\ message # None
    /\ message = prevNotice
    /\ Len(computedLog) = 1
    /\ sendLog = <<>>
    /\ api.transport = "Timeout"

(***************************************************************************)
(* C6: once check_tokens has passed the loop never ends: a pass in         *)
(* progress comes back to the request, and the request is made, whatever   *)
(* the API and the deliveries do.                                          *)
(***************************************************************************)
C6_LoopNeverTerminates ==
    /\ [](InLoop /\ pc # "fetch" => <>(pc = "fetch"))
    /\ [](pc = "fetch" => <>(pc \in {"check", "except"}))

\* back at the request after a pass that failed and whose notice was sent
C6_Witness ==
    /\ pc = "fetch"
    /\ slept
    /\ prevNotice # None
    /\ lastSent = prevNotice

(***************************************************************************)
(* C7: a delivery failure in send_message is not raised and not retried:   *)
(* the pass goes on, no failure notice is made for it, the undelivered     *)
(* text becomes previous_status, and it is not sent again while it equals  *)
(* previous_status.                                                        *)
(***************************************************************************)
C7_DeliveryFailureSwallowed ==
    delivery = "TelegramError" =>
        /\ error.type # "TelegramError"
        /\ ~unhandled
        /\ InLoop
        /\ (pc \in {"assign", "assign_notice"}) => error = NoError
        /\ (pc \notin {"assign", "assign_notice"}) =>
               previous_status = lastSent
        /\ (message # None) => message = FailureNotice(IterationError(api))
        /\ (pc = "send") => new_status # lastSent
        /\ (pc = "send_notice") => message # lastSent
        /\ (pc = "compare" /\ new_status = lastSent) =>
               new_status = previous_status

\* after an undelivered text, the next record has the same text
C7_Witness ==
    /\ delivery = "TelegramError"
    /\ pc = "compare"
    /\ pos = 2
    /\ new_status = lastSent
    /\ Len(sendLog) = 1

(***************************************************************************)
(* C8: every computed text that differs from previous_status is sent       *)
(* exactly once before the next text is computed and becomes               *)
(* previous_status; a computed text equal to previous_status is not sent.  *)
(***************************************************************************)
C8_SendOnChange ==
    (pc \in {"loop", "sleep"}) =>
        /\ sendLog = Compress(startStatus, computedLog)
        /\ previous_status = Last(<<startStatus>> \o computedLog)

\* two texts computed, the first equal to previous_status, the second not
C8_Witness ==
    /\ PassEnded
    /\ Len(computedLog) = 2
    /\ computedLog[1] = startStatus
    /\ sendLog = <<computedLog[2]>>
    /\ previous_status = computedLog[2]

\* the request met status 200 and a mapping with an empty list
EmptyHomeworks ==
    /\ api.transport = "ok"
    /\ api.status_code = HTTP_OK
    /\ api.body.json
    /\ api.body.top = "dict"
    /\ api.body.has_homeworks
    /\ api.body.homeworks_type = "list"
    /\ api.body.homeworks = <<>>

(***************************************************************************)
(* C9: with an empty `homeworks' list the pass sends nothing, leaves       *)
(* previous_status alone, raises nothing, and goes to sleep and on to the  *)
(* next pass.                                                              *)
(***************************************************************************)
C9_EmptyListNoEffect ==
    (requested /\ EmptyHomeworks) =>
        /\ pc \in {"check", "loop", "sleep", "fetch"}
        /\ sendLog = <<>>
        /\ computedLog = <<>>
        /\ previous_status = startStatus
        /\ lastSent = sentBefore
        /\ error = NoError
        /\ message = None
        /\ ~unhandled

\* the next pass is reached after an empty list, the earlier text kept
C9_Witness ==
    /\ EmptyHomeworks
    /\ pc = "fetch"
    /\ slept
    /\ previous_status # None

\* every configuration value is present and not empty
AllTokensPresent ==
    \A k \in DOMAIN env : env[k] # Absent /\ env[k] # ""

(***************************************************************************)
(* C10: with a configuration value empty or absent main aborts with        *)
(* TokensAccessError before the loop: no request, no send, no sleep; with  *)
(* all three present check_tokens raises nothing and the loop is entered.  *)
(***************************************************************************)
C10_TokensGateTheLoop ==
    /\ ~AllTokensPresent =>
        /\ pc \in {"start", "aborted"}
        /\ ~requested
        /\ ~slept
        /\ lastSent = None
        /\ sendLog = <<>>
        /\ (pc = "aborted") => error.type = "TokensAccessError"
    /\ AllTokensPresent =>
        /\ pc # "aborted"
        /\ error.type # "TokensAccessError"
        /\ (pc # "start") => InLoop

\* aborted with only the chat id empty
C10_Witness ==
    /\ pc = "aborted"
    /\ env.PRACTICUM_TOKEN = "secret"
    /\ env.TELEGRAM_TOKEN = "secret"
    /\ env.TELEGRAM_CHAT_ID = ""

(***************************************************************************)
(* The functions on their own: one call of get_api_answer, check_response  *)
(* or parse_status on an argument drawn from its inputs.  The argument     *)
(* stays in api, response or homeworks; the result goes to error and to    *)
(* response, homeworks or new_status.                                      *)
(***************************************************************************)
\* the decoded values check_response is called with
CheckedResponses ==
    {JsonBody(t, FALSE, "", <<>>) : t \in {"list", "str", "NoneType", "dict"}}
    \cup {JsonBody("dict", TRUE, t, <<>>) : t \in {"str", "NoneType", "dict"}}
    \cup {JsonBody("dict", TRUE, "list", h) : h \in HomeworkLists}

FnInit ==
    /\ env = [PRACTICUM_TOKEN |-> "secret", TELEGRAM_TOKEN |-> "secret",
              TELEGRAM_CHAT_ID |-> "secret"]
    /\ timestamp = 0
    /\ previous_status = None
    /\ pos = 0
    /\ new_status = None
    /\ error = NoError
    /\ message = None
    /\ unhandled = FALSE
    /\ repeated = FALSE
    /\ from_date = -1
    /\ startStatus = None
    /\ sentBefore = None
    /\ computedLog = <<>>
    /\ sendLog = <<>>
    /\ lastSent = None
    /\ delivery = "none"
    /\ prevNotice = None
    /\ requested = FALSE
    /\ slept = FALSE
    /\ requests = 0
    /\ sleeps = 0
    /\ sleep_seconds = 0
    /\ \/ /\ pc = "call get_api_answer"
          /\ api \in ApiOutcomes
          /\ response = InvalidBody
          /\ homeworks = <<>>
       \/ /\ pc = "call check_response"
          /\ api = [transport |-> "ok", status_code |-> 0, body |-> InvalidBody]
          /\ response \in CheckedResponses
          /\ homeworks = <<>>
       \/ /\ pc = "call parse_status"
          /\ api = [transport |-> "ok", status_code |-> 0, body |-> InvalidBody]
          /\ response = InvalidBody
          /\ homeworks \in {<<h>> : h \in HomeworkRecords}

CallGetApiAnswer ==
    /\ pc = "call get_api_answer"
    /\ LET r == get_api_answer(api)
       IN  /\ error' = r.error
           /\ response' = IF r.raised THEN response ELSE r.value
    /\ from_date' = timestamp
    /\ requested' = TRUE
    /\ requests' = requests + 1
    /\ sleeps' = 0
    /\ pc' = "done get_api_answer"
    /\ UNCHANGED <<env, timestamp, previous_status, homeworks, pos,
                   new_status, message, unhandled, api, repeated,
                   startStatus, sentBefore, computedLog, sendLog, lastSent,
                   delivery, prevNotice, slept, sleep_seconds>>

CallCheckResponse ==
    /\ pc = "call check_response"
    /\ LET r == check_response(response)
       IN  /\ error' = r.error
           /\ homeworks' = IF r.raised THEN homeworks ELSE r.value
    /\ pc' = "done check_response"
    /\ UNCHANGED <<env, timestamp, previous_status, response, pos,
                   new_status, message, unhandled, observed>>

CallParseStatus ==
    /\ pc = "call parse_status"
    /\ LET r == parse_status(homeworks[1])
       IN  /\ error' = r.error
           /\ new_status' = IF r.raised THEN new_status ELSE r.value
    /\ pc' = "done parse_status"
    /\ UNCHANGED <<env, timestamp, previous_status, response, homeworks, pos,
                   message, unhandled, observed>>

FnNext ==
    \/ CallGetApiAnswer
    \/ CallCheckResponse
    \/ CallParseStatus

FnSpec == FnInit /\ [][FnNext]_vars

C12_CheckResponseCases ==
    (pc = "done check_response") =>
        IF response.top # "dict"
        THEN /\ error.type = "TypeError"
             /\ homeworks = <<>>
        ELSE IF ~(response.has_homeworks /\ response.homeworks_type = "list")
        THEN /\ error # NoError
             /\ homeworks = <<>>
        ELSE /\ error = NoError
             /\ homeworks = response.homeworks

\* a mapping whose `homeworks' is a string
C12_Witness ==
    /\ pc = "done check_response"
    /\ response.top = "dict"
    /\ response.has_homeworks
    /\ response.homeworks_type = "str"
    /\ error.type = "TypeError"

(***************************************************************************)
(* C13: get_api_answer gives each outcome one result, in this order: a     *)
(* transport failure is RequestError; else a status other than 200 is      *)
(* HttpStatusNotOK, whatever the body; else an undecodable body is         *)
(* JsonDecodeError; else the decoded value is returned as it is.           *)
(***************************************************************************)
C13_GetApiAnswerCases ==
    (pc = "done get_api_answer") =>
        IF api.transport # "ok"
        THEN error.type = "RequestError" /\ response = InvalidBody
        ELSE IF api.status_code # 200
        THEN error.type = "HttpStatusNotOK" /\ response = InvalidBody
        ELSE IF ~api.body.json
        THEN error.type = "JsonDecodeError" /\ response = InvalidBody
        ELSE error = NoError /\ response = api.body

\* status 500 with a body that does not decode
C13_Witness ==
    /\ pc = "done get_api_answer"
    /\ api.transport = "ok"
    /\ api.status_code = 500
    /\ ~api.body.json
    /\ error.type = "HttpStatusNotOK"

(***************************************************************************)
(* C14: requests and sleeps alternate: a pass makes one request and no     *)
(* more, and ends with one sleep of RETRY_PERIOD, whatever happened in     *)
(* it; no two requests are made without a sleep between them.              *)
(***************************************************************************)
C14_RequestSleepAlternate ==
    /\ requests <= 1
    /\ sleeps <= 1
    /\ (InLoop /\ pc # "fetch") => (requests = 1 /\ sleeps = 0)
    /\ (pc = "fetch") => requests = 0
    /\ (pc = "fetch" /\ requested) => sleeps = 1
    /\ slept => sleep_seconds = 600
    /\ (pc = "crashed") => sleeps = 1

\* asleep and back after a pass with a failure notice
C14_Witness ==
    /\ pc = "fetch"
    /\ requested
    /\ sleeps = 1
    /\ sleep_seconds = 600
    /\ prevNotice # None

(***************************************************************************)
(* C15: the timestamp never moves: every request carries from_date = 0     *)
(* and no step of the loop changes the timestamp.                          *)
(***************************************************************************)
C15_TimestampStaysZero ==
    /\ InLoop => timestamp = 0
    /\ requested => from_date = 0

\* a request of a later pass, after texts were sent
C15_Witness ==
    /\ pc = "check"
    /\ slept
    /\ lastSent # None
    /\ from_date = 0

\* the text handed to send_message before the latest one
SentBeforeLatest ==
    IF Len(sendLog) >= 2 THEN sendLog[Len(sendLog) - 1] ELSE sentBefore

\* between a send_message call and the assignment on the next line
AfterSendBeforeAssign == pc \in {"assign", "assign_notice"}

(***************************************************************************)
(* C16 as stated: at every point of the loop previous_status is None       *)
(* exactly when send_message was never called, and else is the text of the *)
(* latest send_message call.                                               *)
(***************************************************************************)
C16_Original ==
    InLoop =>
        /\ (previous_status = None) <=> (lastSent = None)
        /\ (lastSent # None) => previous_status = lastSent

(***************************************************************************)
(* C16 amended: at every point of the loop but the one between a           *)
(* send_message call and the assignment that follows it, previous_status   *)
(* is None exactly when send_message was never called and else is the text *)
(* of the latest send_message call, delivered or not; at that one point it *)
(* still is the text of the call before; previous_status changes only in   *)
(* the step right after a send_message call, to the text of that call.     *)
(***************************************************************************)
C16_LastSentRemembered ==
    /\ [](InLoop =>
            IF AfterSendBeforeAssign
            THEN /\ lastSent # None
                 /\ previous_status = SentBeforeLatest
                 /\ previous_status # lastSent
            ELSE /\ (previous_status = None) <=> (lastSent = None)
                 /\ previous_status = lastSent)
    /\ [][(previous_status' # previous_status) =>
            (AfterSendBeforeAssign /\ previous_status' = lastSent)]_vars

\* two texts sent in a pass, the second undelivered and remembered
C16_Witness ==
    /\ pc = "loop"
    /\ Len(sendLog) = 2
    /\ delivery = "TelegramError"
    /\ previous_status = lastSent
    /\ lastSent = sendLog[2]

\* the position of the first record of a list that parse_status refuses;
\* 0 when it refuses none
FirstFailing(hws) ==
    IF \E k \in 1..Len(hws) : parse_status(hws[k]).raised
    THEN CHOOSE k \in 1..Len(hws) :
            /\ parse_status(hws[k]).raised
            /\ \A j \in 1..(k - 1) : ~parse_status(hws[j]).raised
    ELSE 0

\* the texts of the first n records of a list, in list order
TextsOf(hws, n) == [k \in 1..n |-> parse_status(hws[k]).value]

\* the request met status 200 and a mapping with a list under the key
ListOfHomeworks ==
    /\ api.transport = "ok"
    /\ api.status_code = HTTP_OK
    /\ api.body.json
    /\ api.body.top = "dict"
    /\ api.body.has_homeworks
    /\ api.body.homeworks_type = "list"

IsNotice(text) == text[1] = "Sboi v rabote programmy: "

(***************************************************************************)
(* C17: a pass handles the records in list order; when the record at       *)
(* position k is refused, the records before k were formatted and, where   *)
(* their text differed from the one before, sent; the records after k are  *)
(* neither formatted nor sent; the failure notice, if sent, is the last    *)
(* send of the pass; a pass sends at most one failure notice.              *)
(***************************************************************************)
C17_OrderWithinPass ==
    /\ \A i \in 1..Len(sendLog) : IsNotice(sendLog[i]) => i = Len(sendLog)
    /\ (PassEnded /\ ListOfHomeworks) =>
        LET hws == api.body.homeworks
            k == FirstFailing(hws)
        IN  IF k = 0
            THEN /\ pos = Len(hws)
                 /\ computedLog = TextsOf(hws, Len(hws))
                 /\ sendLog = Compress(startStatus, computedLog)
                 /\ message = None
            ELSE /\ pos = k
                 /\ message = FailureNotice(parse_status(hws[k]).error)
                 /\ computedLog = TextsOf(hws, k - 1) \o <<message>>
                 /\ sendLog = Compress(startStatus, computedLog)

\* the first of two records is refused, the second would format
C17_Witness ==
    /\ PassEnded
    /\ ListOfHomeworks
    /\ Len(api.body.homeworks) = 2
    /\ FirstFailing(api.body.homeworks) = 1
    /\ ~parse_status(api.body.homeworks[2]).raised
    /\ pos = 1
    /\ sendLog = <<message>>

====
